---- MODULE Spec2Model ----
(***************************************************************************)
(* Metadata enrichment and franchise-hype classification of the Epic Games *)
(* giveaway ledger: the cache-backed resolver get_game_metadata_with_cache *)
(* (src/src/scraper.py), the enrichment loop that drives it and copies the *)
(* result back into the ledger, and the batch reclassification of          *)
(* validate_and_clean_data (src/src/processor.py).                         *)
(*                                                                         *)
(* Python values are modelled as follows.  Strings, prices and ratings are *)
(* strings ("19.99", "Publisher Not Found"); None is the string "None";    *)
(* a missing cell of the ledger (pd.NA / NaN) is the string "<NA>".  A     *)
(* calendar date is a day number (2021-01-01 is day 1) and a timestamp is  *)
(* a number of seconds from the start of day 0; the shift of the epoch is  *)
(* a translation that no comparison or difference in the code observes.    *)
(* An optional number (NaT, NaN, a parse failure) is a sequence of length  *)
(* zero or one.  A cache entry is a function from the keys it holds to     *)
(* their values, so that dict.get on an absent key is observable.          *)
(***************************************************************************)
EXTENDS Integers, Sequences, FiniteSets, TLC

VARIABLES
    cache,      \* price_cache: the in-memory dict title -> entry
    disk,       \* the content of game_prices.json
    df,         \* df_existing: the ledger, a sequence of rows
    csv,        \* the rows of the ledger file as the last to_csv wrote them
    todo,       \* the row indices of df_existing[needs_enrichment] still to visit
    idx,        \* the row the loop is at (0 outside a resolver call)
    pc,         \* the position of the run
    igdb_token, \* the bearer token of this run (FALSE: None)
    run,        \* the number of the run, 1 for the first
    has_changed,\* the resolver's local flag
    pre,        \* the cache entry as the current call found it (<<>>: none)
    log,        \* the sleeps and requests of the last block, in order
    probe       \* one block applied to one entry, with the answers it drew

vars == <<cache, disk, df, csv, todo, idx, pc, igdb_token, run, has_changed, pre, log, probe>>

----------------------------------------------------------------------------
(* Bounds of the model *)

MaxRuns == 2        \* runs of the batch job
MaxRecords == 2     \* rows of the ledger
MaxCands == 1       \* candidates in one search response of a run (one more in a probe)
MaxSiblings == 1    \* entries in one franchise response of a run (one more in a probe)

----------------------------------------------------------------------------
(* Values *)

None == "None"
NA == "<NA>"
SECONDS_PER_DAY == 86400
HYPE_WINDOW == 90
PRICE_THRESHOLD == 85
STEAM_THRESHOLD == 85
IGDB_THRESHOLD == 80

\* Python truthiness of a string-modelled value (None, 0.0 and "" are falsy)
Truthy(v) == v \notin {None, "0.0", ""}

\* dict.get(k): None when the key is absent
Get(e, k) == IF k \in DOMAIN e THEN e[k] ELSE None

\* dict.get(k, default)
GetOr(e, k, d) == IF k \in DOMAIN e THEN e[k] ELSE d

\* dict.update(kv) and d[k] = v: the keys of kv override
Update(e, kv) == kv @@ e

----------------------------------------------------------------------------
(* Dates: the calendar days the model draws from, with their renderings *)

IsoDay ==
    ( "2021-01-01" :> 1   @@ "2021-03-01" :> 60  @@ "2021-05-30" :> 150 @@
      "2021-05-31" :> 151 @@ "2021-09-01" :> 244 @@ "2021-10-27" :> 300 @@
      "2021-11-16" :> 320 )

DashDay == ( "01-03-2021" :> 60 @@ "01-09-2021" :> 244 )

SlashDay == ( "01/03/2021" :> 60 @@ "01/09/2021" :> 244 )

\* pd.to_datetime(s, dayfirst=True) on a column or a scalar: <<>> is NaT / a raise
ParseDayFirst(s) ==
    IF s \in DOMAIN DashDay THEN <<DashDay[s]>>
    ELSE IF s \in DOMAIN SlashDay THEN <<SlashDay[s]>>
    ELSE IF s \in DOMAIN IsoDay THEN <<IsoDay[s]>>
    ELSE <<>>

\* pd.to_datetime(s) of an ISO date string
ParseIso(s) == IF s \in DOMAIN IsoDay THEN <<IsoDay[s]>> ELSE <<>>

\* strftime("%Y-%m-%d") of a day
StrftimeIso(d) == CHOOSE s \in DOMAIN IsoDay : IsoDay[s] = d

\* to_csv(date_format='%d/%m/%Y') of a day
StrftimeSlash(d) == CHOOSE s \in DOMAIN SlashDay : SlashDay[s] = d

\* datetime.utcfromtimestamp(ts).strftime('%Y-%m-%d')
UtcDate(ts) == StrftimeIso(ts \div SECONDS_PER_DAY)

----------------------------------------------------------------------------
(* Fuzzy match gate: thefuzz.process.extractOne over the candidate labels *)

\* The similarity of each candidate label to the queried title
FuzzScore ==
    ( "exact" :> 100 @@ "near85" :> 85 @@ "near84" :> 84 @@
      "near80" :> 80 @@ "near79" :> 79 )

CandNames == DOMAIN FuzzScore

\* The candidate lists of a search response: up to max candidates with
\* distinct labels
CandLists(max) ==
    { names \in UNION { [1..n -> CandNames] : n \in 0..max } :
        \A i, j \in DOMAIN names : i # j => names[i] # names[j] }

\* process.extractOne(title, choices.keys()): the best label and its score,
\* the first one in key order among equals
ExtractOne(names) ==
    LET best == CHOOSE i \in DOMAIN names :
                    /\ \A j \in DOMAIN names : FuzzScore[names[j]] <= FuzzScore[names[i]]
                    /\ \A j \in 1..(i-1) : FuzzScore[names[j]] < FuzzScore[names[i]]
    IN  [name |-> names[best], score |-> FuzzScore[names[best]]]

----------------------------------------------------------------------------
(* Source adapters.  Each takes what the service answers (err: the request *)
(* raised) and gives its result and the requests it made.                  *)

\* An answer that is never read
Unasked(S) == CHOOSE x \in S : TRUE

PriceValues == {"19.99"}

\* A search answer: the request raised, or the candidate labels
SearchResponses(max) ==
    {[err |-> TRUE, names |-> <<>>]}
        \cup { [err |-> FALSE, names |-> l] : l \in CandLists(max) }

PriceDetailResponses ==
    {[err |-> TRUE, retailPrice |-> None]}
        \cup { [err |-> FALSE, retailPrice |-> p] : p \in PriceValues }

\* Whether a search answer leads to the second request of its adapter
Accepted(search, threshold) ==
    /\ ~search.err
    /\ search.names # <<>>
    /\ ExtractOne(search.names).score >= threshold

\* Mutant of PriceLookup: the except clause stores 0.0
PriceLookup_ZeroOnError(search, detail) ==
    IF search.err
    THEN [set |-> TRUE, price |-> "0.0", log |-> <<"sleep", "price_search">>]
    ELSE IF search.names = <<>>
    THEN [set |-> TRUE, price |-> "0.0", log |-> <<"sleep", "price_search">>]
    ELSE IF ExtractOne(search.names).score >= PRICE_THRESHOLD
    THEN IF detail.err
         THEN [set |-> TRUE, price |-> "0.0",
               log |-> <<"sleep", "price_search", "price_detail">>]
         ELSE [set |-> TRUE, price |-> detail.retailPrice,
               log |-> <<"sleep", "price_search", "price_detail">>]
    ELSE [set |-> TRUE, price |-> "0.0", log |-> <<"sleep", "price_search">>]

\* The body of the price block: set says whether game_entry["price"] was
\* assigned (has_changed = True is reached exactly then)
PriceLookup(search, detail) ==
    IF search.err
    THEN [set |-> FALSE, price |-> None, log |-> <<"sleep", "price_search">>]
    ELSE IF search.names = <<>>
    THEN [set |-> TRUE, price |-> "0.0", log |-> <<"sleep", "price_search">>]
    ELSE IF ExtractOne(search.names).score >= PRICE_THRESHOLD
    THEN IF detail.err
         THEN [set |-> FALSE, price |-> None,
               log |-> <<"sleep", "price_search", "price_detail">>]
         ELSE [set |-> TRUE, price |-> detail.retailPrice,
               log |-> <<"sleep", "price_search", "price_detail">>]
    ELSE [set |-> TRUE, price |-> "0.0", log |-> <<"sleep", "price_search">>]

PublisherNames == {"tinyBuild"}

\* appdetails: the request raised, success is false, or the publishers list
SteamDetailResponses ==
    {[err |-> TRUE, success |-> FALSE, publishers |-> <<>>],
     [err |-> FALSE, success |-> FALSE, publishers |-> <<>>],
     [err |-> FALSE, success |-> TRUE, publishers |-> <<>>]}
        \cup { [err |-> FALSE, success |-> TRUE, publishers |-> <<p>>] : p \in PublisherNames }

get_publisher_from_steam(search, details) ==
    IF search.err
    THEN [pub |-> "Unknown Publisher", log |-> <<"steam_search">>]
    ELSE IF search.names = <<>>
    THEN [pub |-> "Unknown Publisher", log |-> <<"steam_search">>]
    ELSE IF ExtractOne(search.names).score >= STEAM_THRESHOLD
    THEN IF details.err \/ ~details.success
         THEN [pub |-> "Unknown Publisher", log |-> <<"steam_search", "steam_details">>]
         ELSE [pub |-> IF details.publishers # <<>> THEN details.publishers[1]
                       ELSE "Unknown Publisher",
               log |-> <<"steam_search", "steam_details">>]
    ELSE [pub |-> "Unknown Publisher", log |-> <<"steam_search">>]

\* first_release_date of a candidate: absent (<<>>) or epoch seconds
ReleaseStamps == {<<>>, <<1 * SECONDS_PER_DAY>>}
\* aggregated_rating of a candidate: absent or a number
Ratings == {None, "0.0", "75.0"}

\* A malformed games response: the rating of the matching candidate is a text
\* that is not a number
MalformedRatings == {"unrated"}

\* The games response: the candidate labels and the data of the best match
IgdbResponses(max) ==
    {[err |-> TRUE, names |-> <<>>, first_release_date |-> <<>>, aggregated_rating |-> None]}
        \cup [err : {FALSE}, names : {<<>>}, first_release_date : {<<>>},
              aggregated_rating : {None}]
        \cup [err : {FALSE}, names : CandLists(max) \ {<<>>},
              first_release_date : ReleaseStamps, aggregated_rating : Ratings]
        \cup [err : {FALSE}, names : {<<"exact">>},
              first_release_date : {<<>>}, aggregated_rating : MalformedRatings]

\* Mutant of fetch_metadata_from_igdb: "score_match > 80"
fetch_metadata_from_igdb_Strict(resp, token) ==
    IF ~token THEN [date |-> None, rating |-> None, log |-> <<>>]
    ELSE IF resp.err \/ resp.names = <<>>
    THEN [date |-> None, rating |-> None, log |-> <<"igdb_search">>]
    ELSE IF ExtractOne(resp.names).score > IGDB_THRESHOLD
    THEN [date |-> IF resp.first_release_date # <<>> /\ resp.first_release_date[1] # 0
                   THEN UtcDate(resp.first_release_date[1]) ELSE None,
          rating |-> resp.aggregated_rating,
          log |-> <<"igdb_search">>]
    ELSE [date |-> None, rating |-> None, log |-> <<"igdb_search">>]

fetch_metadata_from_igdb(resp, token) ==
    IF ~token THEN [date |-> None, rating |-> None, log |-> <<>>]
    ELSE IF resp.err \/ resp.names = <<>>
    THEN [date |-> None, rating |-> None, log |-> <<"igdb_search">>]
    ELSE IF ExtractOne(resp.names).score >= IGDB_THRESHOLD
    THEN [date |-> IF resp.first_release_date # <<>> /\ resp.first_release_date[1] # 0
                   THEN UtcDate(resp.first_release_date[1]) ELSE None,
          rating |-> resp.aggregated_rating,
          log |-> <<"igdb_search">>]
    ELSE [date |-> None, rating |-> None, log |-> <<"igdb_search">>]

----------------------------------------------------------------------------
(* Franchise adapters and sequel selection *)

Titles == {"Alpha", "Bravo"}

\* constants.SHARED_UNIVERSES: the manual override table (Tier 1)
SHARED_UNIVERSES == ( "Bravo" :> [name |-> "Bravo II", date |-> "2021-11-16"] )

\* A sibling entry: its name and its raw date, an ISO string (knowledge graph,
\* key "date"), epoch seconds (metadata service, key "first_release_date") or
\* nothing
IsoRaw(s) == [k |-> "iso", s |-> s, n |-> 0]
EpochRaw(n) == [k |-> "epoch", s |-> "", n |-> n]
NoRaw == [k |-> "none", s |-> "", n |-> 0]

WikiDates == {"2021-03-01", "2021-05-30", "2021-10-27", "t1285372800"}

EpochStamps ==
    { 60 * SECONDS_PER_DAY + 43200, 150 * SECONDS_PER_DAY + 43200,
      151 * SECONDS_PER_DAY }

\* The name of the sibling released at a raw date
SiblingName(raw) ==
    IF raw.k = "iso" THEN "Entry " \o raw.s
    ELSE IF raw.k = "epoch" THEN "Entry " \o ToString(raw.n)
    ELSE "Entry undated"

\* The responses of up to max siblings
SiblingLists(raws, max) ==
    UNION { { [i \in 1..n |-> [name |-> SiblingName(r[i]), raw |-> r[i]]] :
                r \in [1..n -> raws] } : n \in 0..max }

WikidataResponses(max) ==
    {[err |-> TRUE, results |-> <<>>]}
        \cup { [err |-> FALSE, results |-> l] :
                 l \in SiblingLists({ IsoRaw(s) : s \in WikiDates }, max) }

\* None is the value [none |-> TRUE]; a list is [none |-> FALSE, list |-> ...]
NoList == [none |-> TRUE, list |-> <<>>]
SomeList(l) == [none |-> FALSE, list |-> l]
Falsy(fl) == fl.none \/ fl.list = <<>>

fetch_sequel_from_wikidata(resp) ==
    IF resp.err THEN [res |-> NoList, log |-> <<"wikidata">>]
    ELSE [res |-> SomeList(resp.results), log |-> <<"wikidata">>]

\* The collection search (err, or whether the first hit carries a collection)
\* and the sibling query
CollectionResponses ==
    {[err |-> TRUE, has_collection |-> FALSE], [err |-> FALSE, has_collection |-> FALSE],
     [err |-> FALSE, has_collection |-> TRUE]}
CollectionSiblingResponses(max) ==
    {[err |-> TRUE, results |-> <<>>]}
        \cup { [err |-> FALSE, results |-> l] :
                 l \in SiblingLists({ EpochRaw(n) : n \in EpochStamps } \cup {NoRaw}, max) }

fetch_sequel_metadata(coll, sib, token) ==
    IF ~token THEN [res |-> NoList, log |-> <<>>]
    ELSE IF coll.err \/ ~coll.has_collection
    THEN [res |-> NoList, log |-> <<"igdb_collection">>]
    ELSE IF sib.err
    THEN [res |-> NoList, log |-> <<"igdb_collection", "igdb_siblings">>]
    ELSE [res |-> SomeList(sib.results), log |-> <<"igdb_collection", "igdb_siblings">>]

\* g_ts of one sibling: <<>> when the date does not parse (continue)
SiblingTs(g) ==
    IF g.raw.k = "none" THEN <<0>>
    ELSE IF g.raw.k = "epoch"
    THEN (IF g.raw.n = 0 THEN <<0>> ELSE <<g.raw.n>>)
    ELSE IF g.raw.s = "" THEN <<0>>
    ELSE IF ParseIso(g.raw.s) = <<>> THEN <<>>
    ELSE <<ParseIso(g.raw.s)[1] * SECONDS_PER_DAY>>

\* Mutant of FutureIdx: g_ts >= cur_ts
FutureIdx_Inclusive(list, cur_ts) ==
    { i \in DOMAIN list : SiblingTs(list[i]) # <<>> /\ SiblingTs(list[i])[1] >= cur_ts }

\* The places of the siblings kept in future: g_ts > cur_ts
FutureIdx(list, cur_ts) ==
    { i \in DOMAIN list : SiblingTs(list[i]) # <<>> /\ SiblingTs(list[i])[1] > cur_ts }

\* Mutant of NextGame: future[0] without the sort
NextGame_Unsorted(list, cur_ts) ==
    CHOOSE i \in FutureIdx(list, cur_ts) : \A j \in FutureIdx(list, cur_ts) : i <= j

\* future.sort(key=ts); future[0]: the earliest, the first in the list among equals
NextGame(list, cur_ts) ==
    CHOOSE i \in FutureIdx(list, cur_ts) :
        /\ \A j \in FutureIdx(list, cur_ts) : SiblingTs(list[i])[1] <= SiblingTs(list[j])[1]
        /\ \A j \in FutureIdx(list, cur_ts) :
              j < i => SiblingTs(list[i])[1] < SiblingTs(list[j])[1]

\* Mutant of IsStrategic: the window has no upper end
IsStrategic_NoUpper(lead_time_days) == 0 <= lead_time_days

\* Mutant of IsStrategic: the window stops short of its last day
IsStrategic_Exclusive(lead_time_days) == 0 <= lead_time_days /\ lead_time_days < HYPE_WINDOW

\* is_strategic = 0 <= lead_time_days <= 90
IsStrategic(lead_time_days) == 0 <= lead_time_days /\ lead_time_days <= HYPE_WINDOW

\* int((next_ts - cur_ts) / 86400), next_ts > cur_ts
LeadTimeDays(next_ts, cur_ts) == (next_ts - cur_ts) \div SECONDS_PER_DAY

\* Mutant of ProcessFranchise: a sibling whose date does not parse leaves the
\* try block by its except
ProcessFranchise_AbortOnMalformed(list, start_date) ==
    LET cur == ParseDayFirst(start_date) IN
    IF cur = <<>> \/ \E i \in DOMAIN list : SiblingTs(list[i]) = <<>>
    THEN [raised |-> TRUE, upd |-> <<>>]
    ELSE
      LET cur_ts == cur[1] * SECONDS_PER_DAY IN
      IF FutureIdx(list, cur_ts) # {}
      THEN LET i == NextGame(list, cur_ts)
               next_ts == SiblingTs(list[i])[1]
           IN  [raised |-> FALSE,
                upd |-> [next_sequel_name |-> list[i].name,
                         next_sequel_date |-> UtcDate(next_ts),
                         is_strategic_hype |-> IsStrategic(LeadTimeDays(next_ts, cur_ts))]]
      ELSE [raised |-> FALSE,
            upd |-> [next_sequel_name |-> "No Future Sequel Found",
                     next_sequel_date |-> "N/A",
                     is_strategic_hype |-> FALSE]]

\* "3. Process API Results" for a non-empty franchise_list: the update of the
\* entry, or raised when the try block is left by its except
ProcessFranchise(list, start_date) ==
    LET cur == ParseDayFirst(start_date) IN
    IF cur = <<>> THEN [raised |-> TRUE, upd |-> <<>>]
    ELSE
      LET cur_ts == cur[1] * SECONDS_PER_DAY IN
      IF FutureIdx(list, cur_ts) # {}
      THEN LET i == NextGame(list, cur_ts)
               next_ts == SiblingTs(list[i])[1]
           IN  [raised |-> FALSE,
                upd |-> [next_sequel_name |-> list[i].name,
                         next_sequel_date |-> UtcDate(next_ts),
                         is_strategic_hype |-> IsStrategic(LeadTimeDays(next_ts, cur_ts))]]
      ELSE [raised |-> FALSE,
            upd |-> [next_sequel_name |-> "No Future Sequel Found",
                     next_sequel_date |-> "N/A",
                     is_strategic_hype |-> FALSE]]

----------------------------------------------------------------------------
(* get_game_metadata_with_cache, block by block.  Each block gives the    *)
(* entry it leaves, whether it set has_changed, and its sleeps and        *)
(* requests in order.                                                      *)

NewEntry ==
    [price |-> None, publisher |-> "Unknown Publisher",
     original_release_date |-> None, aggregated_rating |-> None,
     next_sequel_date |-> None, is_strategic_hype |-> FALSE]

\* Mutant of EnterCall: start_date is set when the entry is created only
EnterCall_FirstSight(c, title, promo_start) ==
    IF title \in DOMAIN c THEN c
    ELSE (title :> Update(NewEntry, [start_date |-> promo_start])) @@ c

\* "1. Initialize or get existing entry": the cache with the title's entry
\* created if absent and its start_date set
EnterCall(c, title, promo_start) ==
    (title :> Update(IF title \in DOMAIN c THEN c[title] ELSE NewEntry,
                     [start_date |-> promo_start])) @@ c

Skipped(e) == [entry |-> e, changed |-> FALSE, log |-> <<>>]

\* The answers a block draws when it runs, and one unread answer when it does not
Asked(runs, answers) == IF runs THEN answers ELSE {Unasked(answers)}

\* Mutant of PriceMissing: "if not price", which retries a price of 0.0
PriceMissing_Falsy(e) == ~Truthy(Get(e, "price"))

\* "2. Fetch PRICE (CheapShark)"
PriceMissing(e) == Get(e, "price") = None

PriceAnswers(max) ==
    UNION { { [search |-> s, detail |-> d] :
                d \in Asked(Accepted(s, PRICE_THRESHOLD), PriceDetailResponses) } :
            s \in SearchResponses(max) }

PriceBlock(e, a) ==
    IF PriceMissing(e)
    THEN LET r == PriceLookup(a.search, a.detail) IN
         [entry |-> IF r.set THEN Update(e, [price |-> r.price]) ELSE e,
          changed |-> r.set, log |-> r.log]
    ELSE Skipped(e)

\* Mutant of PublisherMissing: "Publisher Not Found" is not looked up again
PublisherMissing_UnknownOnly(e) == Get(e, "publisher") = "Unknown Publisher"

\* "3. Fetch PUBLISHER (Steam)"
PublisherMissing(e) == Get(e, "publisher") \in {"Unknown Publisher", "Publisher Not Found"}

PublisherAnswers(max) ==
    UNION { { [search |-> s, details |-> d] :
                d \in Asked(Accepted(s, STEAM_THRESHOLD), SteamDetailResponses) } :
            s \in SearchResponses(max) }

PublisherBlock(e, a) ==
    IF PublisherMissing(e)
    THEN LET r == get_publisher_from_steam(a.search, a.details) IN
         [entry |-> Update(e, [publisher |-> IF r.pub # "Unknown Publisher" THEN r.pub
                                             ELSE "Publisher Not Found"]),
          changed |-> TRUE, log |-> <<"sleep">> \o r.log]
    ELSE Skipped(e)

\* Mutant of MissingDate: "Date Not Found" is terminal
MissingDate_Terminal(e) == Get(e, "original_release_date") = None

\* "A) BASIC METADATA FIRST"
MissingDate(e) == Get(e, "original_release_date") \in {None, "Date Not Found"}
MissingScore(e) == Get(e, "aggregated_rating") \in {None, "Score Not Found"}
MissingMeta(e) == MissingDate(e) \/ MissingScore(e)

\* Mutant of ApplyMetadata: both fields are written by every call
ApplyMetadata_Both(e, rel_date, score) ==
    Update(e, [original_release_date |->
                   IF Truthy(rel_date) THEN rel_date ELSE "Date Not Found",
               aggregated_rating |->
                   IF Truthy(score) THEN score ELSE "Score Not Found"])

\* "Only set what's missing": the entry after the answer (rel_date, score)
ApplyMetadata(e, rel_date, score) ==
    LET e1 == IF MissingDate(e)
              THEN Update(e, [original_release_date |->
                                 IF Truthy(rel_date) THEN rel_date ELSE "Date Not Found"])
              ELSE e
    IN  IF MissingScore(e)
        THEN Update(e1, [aggregated_rating |->
                            IF Truthy(score) THEN score ELSE "Score Not Found"])
        ELSE e1

MetaAnswers(max) == { [resp |-> r] : r \in IgdbResponses(max) }

\* Mutant of MetaBlock: "if missing_meta", with or without a token
MetaBlock_NoTokenCheck(e, token, a) ==
    IF MissingMeta(e)
    THEN LET r == fetch_metadata_from_igdb(a.resp, token) IN
         [entry |-> ApplyMetadata(e, r.date, r.rating), changed |-> TRUE, log |-> r.log]
    ELSE Skipped(e)

MetaBlock(e, token, a) ==
    IF MissingMeta(e) /\ token
    THEN LET r == fetch_metadata_from_igdb(a.resp, token) IN
         [entry |-> ApplyMetadata(e, r.date, r.rating), changed |-> TRUE, log |-> r.log]
    ELSE Skipped(e)

\* Mutant of MissingSequel: a title found standalone is searched again
MissingSequel_RetryStandalone(e) ==
    Get(e, "next_sequel_date") = None \/ Get(e, "next_sequel_name") = "Standalone"

\* Mutant of MissingSequel: the "N/A" of a failed search is searched again
MissingSequel_RetryNA(e) == Get(e, "next_sequel_date") \in {None, "N/A"}

\* "B) FRANCHISE / SEQUEL AFTER": the guard of the block
MissingSequel(e) == Get(e, "next_sequel_date") = None

\* Mutant of ReleaseResolved: "current_rel_date is not None"
ReleaseResolved_NotNone(e) == Get(e, "original_release_date") # None

ReleaseResolved(e) == Get(e, "original_release_date") \notin {None, "Date Not Found"}

\* Mutant of ApplyFranchiseList: no final fallback
ApplyFranchiseList_NoFallback(e, fl) ==
    IF ~Falsy(fl)
    THEN LET r == ProcessFranchise(fl.list, Get(e, "start_date")) IN
         IF r.raised THEN [entry |-> e, changed |-> FALSE]
         ELSE [entry |-> Update(e, r.upd), changed |-> TRUE]
    ELSE [entry |-> e, changed |-> FALSE]

\* "3. Process API Results" and "4. Final Fallback" on the franchise_list the
\* tiers left (None after Tier 1)
ApplyFranchiseList(e, fl) ==
    IF ~Falsy(fl)
    THEN LET r == ProcessFranchise(fl.list, Get(e, "start_date")) IN
         IF r.raised THEN [entry |-> e, changed |-> FALSE]
         ELSE [entry |-> Update(e, r.upd), changed |-> TRUE]
    ELSE IF ~Truthy(Get(e, "next_sequel_name"))
    THEN [entry |-> Update(e, [next_sequel_name |-> "Standalone",
                               next_sequel_date |-> "N/A",
                               is_strategic_hype |-> FALSE]),
          changed |-> TRUE]
    ELSE [entry |-> e, changed |-> FALSE]

\* "1. Tier 1: Manual Map"
ApplyManual(e, manual) ==
    Update(e, [next_sequel_name |-> manual.name,
               next_sequel_date |-> manual.date,
               is_strategic_hype |-> TRUE])

\* Mutant of Fallback: "if igdb_token", whatever Tier 2 answered
Fallback_TokenOnly(w, token) == token

\* "if not franchise_list and igdb_token": Tier 3 is asked
Fallback(w, token) == Falsy(fetch_sequel_from_wikidata(w).res) /\ token

FranchiseAnswers(token, max) ==
    UNION { UNION { { [w |-> w, coll |-> c, sib |-> sb] :
                        sb \in Asked(Fallback(w, token) /\ ~c.err /\ c.has_collection,
                                     CollectionSiblingResponses(max)) } :
                    c \in Asked(Fallback(w, token), CollectionResponses) } :
            w \in WikidataResponses(max) }

\* "2. Tiers 2 & 3: API Lookups" and the processing of their result
LookupFranchise(e, token, a) ==
    LET t2 == fetch_sequel_from_wikidata(a.w)
        t3 == fetch_sequel_metadata(a.coll, a.sib, token)
        franchise_list == IF Fallback(a.w, token) THEN t3.res ELSE t2.res
        r == ApplyFranchiseList(e, franchise_list)
    IN  [entry |-> r.entry, changed |-> r.changed,
         log |-> IF Fallback(a.w, token) THEN t2.log \o t3.log ELSE t2.log]

\* Mutant of FranchiseRuns: the block runs whether or not a sequel is cached
FranchiseRuns_Always(e) == ReleaseResolved(e)

FranchiseRuns(e) == MissingSequel(e) /\ ReleaseResolved(e)

\* Mutant of FranchiseBlock: the manual map is not consulted
FranchiseBlock_NoManual(e, title, token, a) ==
    IF FranchiseRuns(e) THEN LookupFranchise(e, token, a) ELSE Skipped(e)

FranchiseBlock(e, title, token, a) ==
    IF FranchiseRuns(e)
    THEN IF title \in DOMAIN SHARED_UNIVERSES
         THEN [entry |-> ApplyFranchiseList(ApplyManual(e, SHARED_UNIVERSES[title]),
                                            NoList).entry,
               changed |-> TRUE, log |-> <<>>]
         ELSE LookupFranchise(e, token, a)
    ELSE Skipped(e)

\* save_to_cache then load_cache give the dict back as it was: every value the
\* resolver stores (None, bool, str, float) survives json.dump / json.load
save_to_cache(c) == c

----------------------------------------------------------------------------
(* The ledger, the persisted cache a run starts from, and the loop *)

StartDates == DOMAIN DashDay

EnrichedColumns ==
    {"price", "publisher", "original_release_date", "aggregated_rating",
     "next_sequel_date", "next_sequel_name"}

\* A row as ingestion leaves it: every enrichable column missing
NewRow(game, start_date) ==
    [game |-> game, start_date |-> start_date,
     price |-> NA, publisher |-> NA, original_release_date |-> NA,
     aggregated_rating |-> NA, next_sequel_date |-> NA, next_sequel_name |-> NA,
     hype_delta_days |-> <<>>, is_strategic_hype |-> FALSE]

\* Ledgers of up to MaxRecords rows.  update_csv appends a promotion only when
\* its start_date is not in the ledger yet, so the rows are in the order of
\* their start dates and no two share one.
Ledgers ==
    { l \in UNION { [1..n -> { NewRow(g, d) : g \in Titles, d \in StartDates }] :
                      n \in 1..MaxRecords } :
        \A i, j \in DOMAIN l :
            i < j => DashDay[l[i].start_date] < DashDay[l[j].start_date] }

\* game_prices.json before the first run: "if os.path.exists" fails, load_cache
\* returns {}
InitialCaches == { <<>> }

\* needs_enrichment: the rows with a missing enrichable cell
NeedsEnrichment(d) == { i \in DOMAIN d : \E c \in EnrichedColumns : d[i][c] = NA }

\* The index of df_existing[needs_enrichment], in row order
RECURSIVE Ascending(_)
Ascending(S) ==
    IF S = {} THEN <<>>
    ELSE LET m == CHOOSE x \in S : \A y \in S : x <= y
         IN  <<m>> \o Ascending(S \ {m})

\* A cell assigned from the entry: None becomes a missing cell
Cell(v) == IF v = None THEN NA ELSE v

\* Mutant of CopyBack: the entry's flag is copied with the other fields
CopyBack_WithFlag(row, metadata) ==
    LET rating_val == Get(metadata, "aggregated_rating")
        pub == Get(metadata, "publisher")
    IN  [row EXCEPT
           !.price = Cell(Get(metadata, "price")),
           !.original_release_date = Cell(Get(metadata, "original_release_date")),
           !.aggregated_rating =
               IF Truthy(rating_val) /\ rating_val # "Score Not Found"
               THEN rating_val ELSE NA,
           !.next_sequel_date = Cell(Get(metadata, "next_sequel_date")),
           !.next_sequel_name = Cell(Get(metadata, "next_sequel_name")),
           !.is_strategic_hype = GetOr(metadata, "is_strategic_hype", FALSE),
           !.publisher =
               IF pub \notin {"Unknown Publisher", "Publisher Not Found"}
               THEN Cell(pub) ELSE @]

\* "Apply updates to DataFrame"
CopyBack(row, metadata) ==
    LET rating_val == Get(metadata, "aggregated_rating")
        pub == Get(metadata, "publisher")
    IN  [row EXCEPT
           !.price = Cell(Get(metadata, "price")),
           !.original_release_date = Cell(Get(metadata, "original_release_date")),
           !.aggregated_rating =
               IF Truthy(rating_val) /\ rating_val # "Score Not Found"
               THEN rating_val ELSE NA,
           !.next_sequel_date = Cell(Get(metadata, "next_sequel_date")),
           !.next_sequel_name = Cell(Get(metadata, "next_sequel_name")),
           !.publisher =
               IF pub \notin {"Unknown Publisher", "Publisher Not Found"}
               THEN Cell(pub) ELSE @]

NoProbe ==
    [fn |-> "none", title |-> "Alpha", token |-> FALSE, entry |-> NewEntry,
     done |-> FALSE, answers |-> <<>>, out |-> Skipped(NewEntry)]

Init ==
    /\ disk \in InitialCaches
    /\ cache = disk
    /\ df \in Ledgers
    /\ csv = df
    /\ todo = Ascending(NeedsEnrichment(df))
    /\ idx = 0
    /\ pc = "loop"
    /\ igdb_token \in BOOLEAN
    /\ run = 1
    /\ has_changed = FALSE
    /\ pre = <<>>
    /\ log = <<>>
    /\ probe = NoProbe

game_title == df[idx].game
game_entry == cache[game_title]

\* The loop takes the next row and enters the resolver
StartCall ==
    /\ pc = "loop"
    /\ todo # <<>>
    /\ LET i == Head(todo) IN
       /\ idx' = i
       /\ pre' = (IF df[i].game \in DOMAIN cache THEN cache[df[i].game] ELSE <<>>)
       /\ cache' = EnterCall(cache, df[i].game, df[i].start_date)
    /\ todo' = Tail(todo)
    /\ has_changed' = FALSE
    /\ pc' = "price"
    /\ log' = <<>>
    /\ UNCHANGED <<disk, df, csv, igdb_token, run, probe>>

\* Mutant of Step: has_changed is assigned by each block, not accumulated
Step_Overwrite(r, next) ==
    /\ cache' = [cache EXCEPT ![game_title] = r.entry]
    /\ has_changed' = r.changed
    /\ log' = r.log
    /\ pc' = next
    /\ UNCHANGED <<disk, df, csv, todo, idx, igdb_token, run, pre, probe>>

\* A block of the call: the entry, has_changed and the log after it
Step(r, next) ==
    /\ cache' = [cache EXCEPT ![game_title] = r.entry]
    /\ has_changed' = (has_changed \/ r.changed)
    /\ log' = r.log
    /\ pc' = next
    /\ UNCHANGED <<disk, df, csv, todo, idx, igdb_token, run, pre, probe>>

PriceStep ==
    /\ pc = "price"
    /\ \E a \in Asked(PriceMissing(game_entry), PriceAnswers(MaxCands)) :
         Step(PriceBlock(game_entry, a), "publisher")

PublisherStep ==
    /\ pc = "publisher"
    /\ \E a \in Asked(PublisherMissing(game_entry), PublisherAnswers(MaxCands)) :
         Step(PublisherBlock(game_entry, a), "meta")

MetaStep ==
    /\ pc = "meta"
    /\ \E a \in Asked(MissingMeta(game_entry) /\ igdb_token, MetaAnswers(MaxCands)) :
         Step(MetaBlock(game_entry, igdb_token, a), "franchise")

FranchiseStep ==
    /\ pc = "franchise"
    /\ \E a \in Asked(FranchiseRuns(game_entry) /\ game_title \notin DOMAIN SHARED_UNIVERSES,
                      FranchiseAnswers(igdb_token, MaxSiblings)) :
         Step(FranchiseBlock(game_entry, game_title, igdb_token, a), "save")

\* float(rating_val) raises ValueError on a text that is not a number
FloatRaises(v) == v \in MalformedRatings

\* The loop body after the call raises: the rating is truthy, is not "Score
\* Not Found" and is not a number
CopyBackRaises(metadata) ==
    LET rating_val == Get(metadata, "aggregated_rating") IN
    Truthy(rating_val) /\ rating_val # "Score Not Found" /\ FloatRaises(rating_val)

\* "if has_changed: save_to_cache(cache)", return, and the loop body after the call
FinishCall ==
    /\ pc = "save"
    /\ ~CopyBackRaises(game_entry)
    /\ disk' = (IF has_changed THEN save_to_cache(cache) ELSE disk)
    /\ df' = [df EXCEPT ![idx] = CopyBack(@, game_entry)]
    /\ pc' = "loop"
    /\ idx' = 0
    /\ pre' = <<>>
    /\ has_changed' = FALSE
    /\ log' = <<>>
    /\ UNCHANGED <<cache, csv, todo, igdb_token, run, probe>>

\* The call returns and float(rating_val) raises in the loop body, which has
\* no handler: the script ends with the traceback, the cache the call saved
\* stays on disk, the rows updated in memory are lost and the ledger file is
\* the one the run read.
AbortRun ==
    /\ pc = "save"
    /\ CopyBackRaises(game_entry)
    /\ disk' = (IF has_changed THEN save_to_cache(cache) ELSE disk)
    /\ df' = csv
    /\ pc' = "aborted"
    /\ idx' = 0
    /\ pre' = <<>>
    /\ has_changed' = FALSE
    /\ log' = <<>>
    /\ UNCHANGED <<cache, csv, todo, igdb_token, run, probe>>

----------------------------------------------------------------------------
(* validate_and_clean_data: the batch reclassification of the whole ledger *)

\* str.strip().str.title() of the publisher names of the model
TitleCase ==
    ( "tinyBuild" :> "Tinybuild" @@ "Tinybuild" :> "Tinybuild" @@
      "Unknown Publisher" :> "Unknown Publisher" )

\* clean_metadata_and_inflation on one row; start_date becomes a day (<<>>: NaT)
clean_metadata_and_inflation(row) ==
    LET p1 == IF row.publisher = "Publisher Not Found" THEN "Unknown Publisher"
              ELSE row.publisher
        p2 == IF p1 = NA THEN "Unknown Publisher" ELSE p1
    IN  [row EXCEPT
           !.publisher = TitleCase[p2],
           !.start_date = ParseDayFirst(row.start_date),
           !.price = IF row.price = NA THEN "0.0" ELSE row.price]

\* pd.to_datetime(df['next_sequel_date'], errors='coerce') on one cell
SequelDay(v) == ParseIso(v)

\* calculate_hype_delta on one cleaned row: (sequel_dates - start_dates).dt.days
calculate_hype_delta(row) ==
    LET sequel == SequelDay(row.next_sequel_date) IN
    [row EXCEPT !.hype_delta_days =
        IF sequel = <<>> \/ row.start_date = <<>> THEN <<>>
        ELSE <<sequel[1] - row.start_date[1]>>]

\* Mutant of tag_hype_candidates: (delta >= 0) & (delta < 90)
tag_hype_candidates_Exclusive(row) ==
    [row EXCEPT !.is_strategic_hype =
        /\ row.hype_delta_days # <<>>
        /\ row.hype_delta_days[1] >= 0
        /\ row.hype_delta_days[1] < HYPE_WINDOW]

\* tag_hype_candidates on one row: (delta >= 0) & (delta <= 90), NaN is False
tag_hype_candidates(row) ==
    [row EXCEPT !.is_strategic_hype =
        /\ row.hype_delta_days # <<>>
        /\ row.hype_delta_days[1] >= 0
        /\ row.hype_delta_days[1] <= HYPE_WINDOW]

\* to_csv(date_format='%d/%m/%Y') of the row's start_date
WriteRow(row) ==
    [row EXCEPT !.start_date = IF @ = <<>> THEN NA ELSE StrftimeSlash(@[1])]

\* The rows validate_and_clean_data returns, as the final to_csv writes them.
\* The ledger has a title in every row and no (game, start_date) twice, so that
\* check_for_null_titles and remove_duplicates keep every row.
validate_and_clean_data(d) ==
    [i \in DOMAIN d |->
        WriteRow(tag_hype_candidates(calculate_hype_delta(clean_metadata_and_inflation(d[i]))))]

\* The loop is over: "4. ANALYTICS & CHARTS" and the final CSV
EndLoop ==
    /\ pc = "loop"
    /\ todo = <<>>
    /\ df' = validate_and_clean_data(df)
    /\ csv' = df'
    /\ pc' = "end"
    /\ UNCHANGED <<cache, disk, todo, idx, igdb_token, run, has_changed, pre, log, probe>>

\* pd.read_csv of the ledger file.  With the default
\* keep_default_na a cell holding the text "N/A" is read as a missing value,
\* like an empty cell; the only column that can hold it is next_sequel_date.
read_csv(d) ==
    [i \in DOMAIN d |->
        [d[i] EXCEPT !.next_sequel_date = IF @ = "N/A" THEN NA ELSE @]]

\* The next run of the batch job, after a run that ended or one that was
\* aborted: load_cache, get_igdb_token, read_csv and needs_enrichment
NextRun ==
    /\ pc \in {"end", "aborted"}
    /\ run < MaxRuns
    /\ cache' = disk
    /\ igdb_token' \in BOOLEAN
    /\ df' = read_csv(csv)
    /\ todo' = Ascending(NeedsEnrichment(df'))
    /\ run' = run + 1
    /\ pc' = "loop"
    /\ UNCHANGED <<disk, csv, idx, has_changed, pre, log, probe>>

Next ==
    \/ StartCall
    \/ PriceStep
    \/ PublisherStep
    \/ MetaStep
    \/ FranchiseStep
    \/ FinishCall
    \/ AbortRun
    \/ EndLoop
    \/ NextRun

Spec == Init /\ [][Next]_vars

----------------------------------------------------------------------------
(* Block probes: one block of the resolver applied to one cache entry, with *)
(* the answers it drew kept beside its result.                              *)

\* The entries a call can find: every value the resolver stores in each field,
\* franchise fields set only once the release date is a real value.  The date
\* and the rating an earlier call resolved differ from those the service
\* answers now, so that an overwrite shows.
SequelStates ==
    { [next_sequel_date |-> None, is_strategic_hype |-> FALSE],
      [next_sequel_name |-> "Standalone", next_sequel_date |-> "N/A",
       is_strategic_hype |-> FALSE],
      [next_sequel_name |-> "No Future Sequel Found", next_sequel_date |-> "N/A",
       is_strategic_hype |-> FALSE],
      [next_sequel_name |-> "Entry 2021-05-30", next_sequel_date |-> "2021-05-30",
       is_strategic_hype |-> TRUE] }

StoredEntries ==
    { Update(q, [price |-> p, publisher |-> b, original_release_date |-> d,
                 aggregated_rating |-> r, start_date |-> sd]) :
        p \in {None, "0.0", "19.99"},
        b \in {"Unknown Publisher", "Publisher Not Found", "tinyBuild"},
        d \in {None, "Date Not Found", "2021-03-01"},
        r \in {None, "Score Not Found", "88.5"},
        q \in SequelStates, sd \in StartDates }

\* Entries of a game_prices.json written when it held prices only
LegacyEntries == { [price |-> "19.99", start_date |-> sd] : sd \in StartDates }

ProbeEntries ==
    { e \in StoredEntries : ~MissingSequel(e) => ReleaseResolved(e) } \cup LegacyEntries

Probes ==
    { [fn |-> f, title |-> t, token |-> k, entry |-> e, done |-> FALSE,
       answers |-> <<>>, out |-> Skipped(e)] :
        f \in {"price", "publisher", "meta", "franchise"}, t \in Titles,
        k \in BOOLEAN, e \in ProbeEntries }

ProbeInit ==
    /\ disk = <<>>
    /\ cache = <<>>
    /\ df = <<NewRow("Alpha", "01-03-2021")>>
    /\ csv = df
    /\ todo = <<1>>
    /\ idx = 0
    /\ pc = "probe"
    /\ igdb_token = FALSE
    /\ run = 1
    /\ has_changed = FALSE
    /\ pre = <<>>
    /\ log = <<>>
    /\ probe \in { q \in Probes :
                     /\ q.fn \in {"price", "publisher"} => q.token /\ q.title = "Alpha"
                     /\ q.fn = "meta" => q.title = "Alpha" }

Probed(a, r) ==
    /\ probe' = [probe EXCEPT !.done = TRUE, !.answers = a, !.out = r]
    /\ UNCHANGED <<cache, disk, df, csv, todo, idx, pc, igdb_token, run, has_changed, pre, log>>

ProbePrice ==
    /\ probe.fn = "price" /\ ~probe.done
    /\ \E a \in Asked(PriceMissing(probe.entry), PriceAnswers(MaxCands + 1)) :
         Probed(a, PriceBlock(probe.entry, a))

ProbePublisher ==
    /\ probe.fn = "publisher" /\ ~probe.done
    /\ \E a \in Asked(PublisherMissing(probe.entry), PublisherAnswers(MaxCands + 1)) :
         Probed(a, PublisherBlock(probe.entry, a))

ProbeMeta ==
    /\ probe.fn = "meta" /\ ~probe.done
    /\ \E a \in Asked(MissingMeta(probe.entry) /\ probe.token, MetaAnswers(MaxCands + 1)) :
         Probed(a, MetaBlock(probe.entry, probe.token, a))

ProbeFranchise ==
    /\ probe.fn = "franchise" /\ ~probe.done
    /\ \E a \in Asked(FranchiseRuns(probe.entry) /\ probe.title \notin DOMAIN SHARED_UNIVERSES,
                      FranchiseAnswers(probe.token, MaxSiblings + 1)) :
         Probed(a, FranchiseBlock(probe.entry, probe.title, probe.token, a))

ProbeNext ==
    \/ ProbePrice
    \/ ProbePublisher
    \/ ProbeMeta
    \/ ProbeFranchise

ProbeSpec == ProbeInit /\ [][ProbeNext]_vars

TypeOK ==
    /\ DOMAIN cache \subseteq Titles
    /\ DOMAIN disk \subseteq Titles
    /\ pc \in {"loop", "price", "publisher", "meta", "franchise", "save", "end", "aborted", "probe"}
    /\ run \in 1..MaxRuns

----------------------------------------------------------------------------
(* Properties *)

InCall == pc \in {"price", "publisher", "meta", "franchise", "save"}

\* The requests of a log: everything but the sleeps
Requests(l) == { l[k] : k \in DOMAIN l } \ {"sleep"}

\* The call in progress found an entry for its title
Revisit == InCall /\ pre # <<>>

\* C1: once an entry's price is a non-None value (0.0 included), no step of
\* any later call or run changes it, and the price block of a later call for
\* the title issues no price-catalog request.
C1_PriceTerminal ==
    /\ [][\A t \in DOMAIN cache :
            Get(cache[t], "price") # None
                => t \in DOMAIN cache' /\ Get(cache'[t], "price") = Get(cache[t], "price")]_vars
    /\ [](Revisit /\ pc = "publisher" /\ Get(pre, "price") # None
             => Requests(log) \cap {"price_search", "price_detail"} = {})

\* C1 witness: in the second run, the price block has just been passed for a
\* title whose persisted price is the not-found value 0.0
C1_Witness ==
    /\ run = 2
    /\ Revisit /\ pc = "publisher"
    /\ Get(pre, "price") = "0.0"
    /\ Get(game_entry, "price") = "0.0"

FullyEnriched(e) ==
    /\ Get(e, "price") # None
    /\ Get(e, "publisher") \notin {None, "Unknown Publisher", "Publisher Not Found"}
    /\ Get(e, "original_release_date") \notin {None, "Date Not Found"}
    /\ Get(e, "aggregated_rating") \notin {None, "Score Not Found"}
    /\ Get(e, "next_sequel_date") # None

\* C2: a call that finds a fully enriched entry issues no request (and no
\* sleep) in any of its blocks, whatever promo_start and the token are.
C2_FullyEnrichedNoCalls ==
    Revisit /\ FullyEnriched(pre) /\ pc # "price" => log = <<>>

\* C2 witness: the last block of a call with a token and a new promo_start has
\* been passed on a fully enriched entry
C2_Witness ==
    /\ Revisit /\ pc = "save"
    /\ FullyEnriched(pre)
    /\ igdb_token
    /\ Get(pre, "start_date") # Get(game_entry, "start_date")

Manual == DOMAIN SHARED_UNIVERSES
Flag(e) == GetOr(e, "is_strategic_hype", FALSE)
FranchiseFields(e) ==
    <<Get(e, "next_sequel_name"), Get(e, "next_sequel_date"), Flag(e)>>

\* Whole days from an entry's start_date to its next_sequel_date; <<>> when
\* one of them is not a date
LeadDays(e) ==
    LET s == ParseDayFirst(Get(e, "start_date"))
        q == ParseIso(Get(e, "next_sequel_date"))
    IN  IF s = <<>> \/ q = <<>> THEN <<>> ELSE <<q[1] - s[1]>>

InWindow(e) ==
    LeadDays(e) # <<>> /\ 0 <= LeadDays(e)[1] /\ LeadDays(e)[1] <= 90

\* C3 as stated: between calls, every entry flagged is_strategic_hype whose
\* title is not in the manual table has 0 <= lead <= 90 for its current
\* start_date.
C3_FlagInWindowOfCurrentStart ==
    pc \in {"loop", "end"} =>
        \A t \in DOMAIN cache \ Manual : Flag(cache[t]) => InWindow(cache[t])

\* C3 amended: whenever a step sets the flag of a non-manual entry or changes
\* its next_sequel_date under a set flag, the entry is within the window for
\* the start_date it holds at that step; the flag is not revised when a later
\* call changes start_date.
C3_FlagInWindowWhenSet ==
    [][\A t \in DOMAIN cache' \ Manual :
          /\ Flag(cache'[t])
          /\ \/ t \notin DOMAIN cache
             \/ ~Flag(cache[t])
             \/ Get(cache[t], "next_sequel_date") # Get(cache'[t], "next_sequel_date")
          => InWindow(cache'[t])]_vars

\* C3 witness: the franchise block has just flagged a non-manual entry whose
\* sequel is 90 days after the start date
C3_Witness ==
    /\ pc = "save"
    /\ game_title \notin Manual
    /\ MissingSequel(IF pre = <<>> THEN NewEntry ELSE pre)
    /\ Flag(game_entry)
    /\ LeadDays(game_entry) = <<90>>

\* C4 as stated: a title resolved by the manual table (Tier 1) is flagged
\* is_strategic_hype in its cache entry and in its enriched record once the
\* batch has reclassified the ledger.
C4_Tier1AlwaysHype ==
    /\ \A t \in DOMAIN cache \cap Manual :
          Get(cache[t], "next_sequel_name") = SHARED_UNIVERSES[t].name => Flag(cache[t])
    /\ pc = "end" =>
          \A i \in DOMAIN df :
             /\ df[i].game \in Manual
             /\ df[i].next_sequel_name = SHARED_UNIVERSES[df[i].game].name
             => df[i].is_strategic_hype

\* The best similarity among the candidate labels of a search answer
TopScore(names) ==
    CHOOSE n \in { FuzzScore[names[i]] : i \in DOMAIN names } :
        \A i \in DOMAIN names : FuzzScore[names[i]] <= n

ProbeRan(fn) == probe.done /\ probe.fn = fn

Repromoted == Revisit /\ Get(pre, "start_date") # Get(game_entry, "start_date")

\* C6 as stated: after a second call for a title with a different start date,
\* the entry's franchise fields are those relative to the second start date:
\* a dated sequel is not before that date and the flag is the window test on
\* the lead time from it.
C6_FranchiseFollowsSecondStart ==
    pc = "save" /\ Repromoted /\ game_title \notin Manual /\ LeadDays(game_entry) # <<>>
        => /\ LeadDays(game_entry)[1] >= 0
           /\ Flag(game_entry) = InWindow(game_entry)

\* C6 amended: the cache holds one entry per title, whose start_date is the
\* one of the latest call; franchise fields resolved by an earlier call are
\* left as that call computed them, relative to its own start date.
C6_FranchiseKeptFromFirstStart ==
    pc = "save" /\ Revisit /\ ~MissingSequel(pre)
        => /\ Get(game_entry, "start_date") = df[idx].start_date
           /\ FranchiseFields(game_entry) = FranchiseFields(pre)

\* C6 witness: the second call of a title promoted on 01-03-2021 and on
\* 01-09-2021 is over; the sequel dated 2021-05-30 and its flag are still there
C6_Witness ==
    /\ pc = "save" /\ Repromoted
    /\ Get(pre, "start_date") = "01-03-2021"
    /\ Get(game_entry, "start_date") = "01-09-2021"
    /\ Get(game_entry, "next_sequel_date") = "2021-05-30"
    /\ Flag(game_entry)

\* The timestamp of a sibling in seconds, <<>> when it has none
Stamp(g) ==
    IF g.raw.k = "epoch" /\ g.raw.n > 0 THEN <<g.raw.n>>
    ELSE IF g.raw.k = "iso" /\ g.raw.s \in DOMAIN IsoDay THEN <<IsoDay[g.raw.s] * 86400>>
    ELSE <<>>

\* The sibling list the tiers answered to the probed franchise block: the
\* knowledge graph's, or the metadata service's when the former is empty and a
\* token is held
TierList ==
    LET a == probe.answers IN
    IF ~a.w.err /\ a.w.results # <<>> THEN a.w.results
    ELSE IF probe.token /\ ~a.coll.err /\ a.coll.has_collection /\ ~a.sib.err
    THEN a.sib.results
    ELSE <<>>

\* The franchise block ran its tier lookups on the probed entry
TiersAsked ==
    /\ ProbeRan("franchise")
    /\ probe.title \notin Manual
    /\ FranchiseRuns(probe.entry)

StartStamp == ParseDayFirst(Get(probe.entry, "start_date"))[1] * 86400

LaterSiblings ==
    { i \in DOMAIN TierList :
        Stamp(TierList[i]) # <<>> /\ Stamp(TierList[i])[1] > StartStamp }

\* The entry names the earliest of the strictly later siblings
SelectsEarliestLater ==
    \E i \in LaterSiblings :
       /\ \A j \in LaterSiblings : Stamp(TierList[i])[1] <= Stamp(TierList[j])[1]
       /\ Get(probe.out.entry, "next_sequel_name") = TierList[i].name
       /\ ParseIso(Get(probe.out.entry, "next_sequel_date"))
             = <<Stamp(TierList[i])[1] \div 86400>>

\* C7 as stated: among the siblings, only those strictly later than
\* start_date are eligible, the one with the smallest timestamp is selected,
\* and its lead time is positive.
C7_SequelPositiveLead ==
    TiersAsked /\ LaterSiblings # {}
        => SelectsEarliestLater /\ LeadDays(probe.out.entry)[1] > 0

\* C7 amended: among the siblings, only those with a timestamp strictly later
\* than start_date are eligible and the one with the smallest timestamp is
\* selected; its lead time in whole days is zero or more (zero for a sibling
\* stamped later on the start day itself).
C7_SequelSelection ==
    TiersAsked /\ LaterSiblings # {}
        => SelectsEarliestLater /\ LeadDays(probe.out.entry)[1] >= 0

\* C7 witness: of two later siblings listed latest first, the one stamped at
\* noon of the start day was selected, with a lead time of 0 days
C7_Witness ==
    /\ TiersAsked
    /\ Len(TierList) = 2
    /\ LaterSiblings = {1, 2}
    /\ Stamp(TierList[1])[1] > Stamp(TierList[2])[1]
    /\ Get(probe.out.entry, "next_sequel_name") = TierList[2].name
    /\ LeadDays(probe.out.entry) = <<0>>

\* C8: when the franchise block runs its tier lookups and they yield no
\* sibling list, an entry without a cached next_sequel_name is marked
\* "Standalone" with date "N/A" and flag false; "Standalone" is written in no
\* other case.
C8_StandaloneFallback ==
    /\ TiersAsked /\ TierList = <<>> /\ ~Truthy(Get(probe.entry, "next_sequel_name"))
         => /\ FranchiseFields(probe.out.entry) = <<"Standalone", "N/A", FALSE>>
            /\ probe.out.changed
    /\ (/\ ProbeRan("franchise")
        /\ Get(probe.out.entry, "next_sequel_name") = "Standalone"
        /\ Get(probe.entry, "next_sequel_name") # "Standalone")
         => /\ TiersAsked /\ TierList = <<>>
            /\ ~Truthy(Get(probe.entry, "next_sequel_name"))

\* C8 witness: with a token, the knowledge graph answered no sibling and the
\* metadata service no collection, and the entry was marked Standalone
C8_Witness ==
    /\ TiersAsked /\ probe.token
    /\ ~probe.answers.w.err /\ probe.answers.w.results = <<>>
    /\ ~probe.answers.coll.err /\ ~probe.answers.coll.has_collection
    /\ FranchiseFields(probe.out.entry) = <<"Standalone", "N/A", FALSE>>

\* Whole days from a written row's start_date to its next_sequel_date
RowLead(row) ==
    IF row.next_sequel_date \in DOMAIN IsoDay /\ row.start_date \in DOMAIN SlashDay
    THEN <<IsoDay[row.next_sequel_date] - SlashDay[row.start_date]>>
    ELSE <<>>

\* C9: after the batch reclassification every record's hype_delta_days is
\* next_sequel_date minus start_date in whole days, and is_strategic_hype is
\* true exactly when 0 <= hype_delta_days <= 90; a record whose
\* next_sequel_date is missing or "N/A" has no hype_delta_days and a false
\* flag, and a negative difference gives a false flag.
C9_HypeClassifier ==
    pc = "end" =>
        \A i \in DOMAIN df :
           /\ df[i].hype_delta_days = RowLead(df[i])
           /\ df[i].is_strategic_hype
                 = (RowLead(df[i]) # <<>> /\ RowLead(df[i])[1] \in 0..90)
           /\ df[i].next_sequel_date \in {NA, "N/A"}
                 => df[i].hype_delta_days = <<>> /\ ~df[i].is_strategic_hype

\* C9 witness: a reclassified ledger with a record at exactly 90 days, flagged,
\* and a record of the same title at -94 days, not flagged
C9_Witness ==
    /\ pc = "end"
    /\ Len(df) = 2
    /\ df[1].hype_delta_days = <<90>> /\ df[1].is_strategic_hype
    /\ df[2].hype_delta_days = <<-94>> /\ ~df[2].is_strategic_hype

\* The results a reload of the persisted cache would not give back for a
\* title: price, publisher, metadata (date and rating), franchise
ResultGroups ==
    ( "price" :> {"price"} @@ "publisher" :> {"publisher"} @@
      "metadata" :> {"original_release_date", "aggregated_rating"} @@
      "franchise" :> {"next_sequel_name", "next_sequel_date", "is_strategic_hype"} )

Persisted(t) == IF t \in DOMAIN disk THEN disk[t] ELSE NewEntry

Unsaved(t) ==
    { g \in DOMAIN ResultGroups :
        \E k \in ResultGroups[g] : Get(cache[t], k) # Get(Persisted(t), k) }

C11_FlushedOnReturn ==
    pc \in {"loop", "end"} => cache = disk

\* The request of a probed block that failed (raised)
PriceFailed ==
    LET a == probe.answers IN
    \/ a.search.err
    \/ /\ a.search.names # <<>> /\ TopScore(a.search.names) >= 85
       /\ a.detail.err

PublisherFailed ==
    LET a == probe.answers IN
    \/ a.search.err
    \/ /\ a.search.names # <<>> /\ TopScore(a.search.names) >= 85
       /\ a.details.err

\* Every franchise tier that was asked failed
TiersFailed ==
    LET a == probe.answers IN
    /\ a.w.err
    /\ \/ ~probe.token
       \/ a.coll.err
       \/ a.coll.has_collection /\ a.sib.err

\* C12 as stated: a failed request of an adapter leaves the affected field of
\* the entry as the call found it; no "Publisher Not Found", "Date Not Found",
\* "Score Not Found" or "Standalone" / "N/A" is written because of it.
C12_FailureKeepsField ==
    LET e == probe.entry
        o == probe.out.entry
    IN
    /\ ProbeRan("price") /\ PriceMissing(e) /\ PriceFailed
         => Get(o, "price") = Get(e, "price")
    /\ ProbeRan("publisher") /\ PublisherMissing(e) /\ PublisherFailed
         => Get(o, "publisher") = Get(e, "publisher")
    /\ ProbeRan("meta") /\ MissingMeta(e) /\ probe.token /\ probe.answers.resp.err
         => /\ Get(o, "original_release_date") = Get(e, "original_release_date")
            /\ Get(o, "aggregated_rating") = Get(e, "aggregated_rating")
    /\ TiersAsked /\ TiersFailed
         => FranchiseFields(o) = FranchiseFields(e)

\* An attempted price lookup found no listing: no search result, or a best
\* score below 85
PriceNoMatch ==
    LET a == probe.answers IN
    /\ ~a.search.err
    /\ a.search.names = <<>> \/ TopScore(a.search.names) < 85

\* C13 as stated: an attempted price lookup that fails, by no search result,
\* by a score below 85 or by a raised search or listing-detail request, sets
\* the entry's price to 0.0.
C13_PriceFailureIsZero ==
    ProbeRan("price") /\ PriceMissing(probe.entry) /\ (PriceNoMatch \/ PriceFailed)
        => Get(probe.out.entry, "price") = "0.0"

\* C13 amended: an attempted price lookup that finds no search result or a
\* best score below 85 sets the price to the terminal value 0.0; a raised
\* search or listing-detail request leaves the price None, to be looked up
\* again by the next call.
C13_PriceFailure ==
    ProbeRan("price") /\ PriceMissing(probe.entry)
        => /\ PriceNoMatch
                => Get(probe.out.entry, "price") = "0.0" /\ probe.out.changed
           /\ PriceFailed
                => /\ Get(probe.out.entry, "price") = None
                   /\ PriceMissing(probe.out.entry)
                   /\ ~probe.out.changed

\* C13 witness: the search matched with a score of 85 or more, the
\* listing-detail request raised, and the price is still None
C13_Witness ==
    /\ ProbeRan("price") /\ PriceMissing(probe.entry)
    /\ ~probe.answers.search.err
    /\ probe.answers.search.names # <<>>
    /\ TopScore(probe.answers.search.names) >= 85
    /\ probe.answers.detail.err
    /\ Get(probe.out.entry, "price") = None

\* The entry as the call in progress found it, or as it created it
Found == IF pre = <<>> THEN NewEntry ELSE pre

RealPublisher(e) ==
    Get(e, "publisher") \notin {None, "Unknown Publisher", "Publisher Not Found"}

\* C14: every call for a title whose entry holds "Unknown Publisher" or
\* "Publisher Not Found" issues a storefront search; a call for a title whose
\* entry holds a real publisher name issues no storefront request, and no
\* step of any call or run changes a real publisher name.
C14_PublisherRetry ==
    /\ [](pc = "meta"
            => /\ Get(Found, "publisher") \in {"Unknown Publisher", "Publisher Not Found"}
                    => "steam_search" \in Requests(log)
               /\ RealPublisher(Found)
                    => Requests(log) \cap {"steam_search", "steam_details"} = {})
    /\ [][\A t \in DOMAIN cache :
            RealPublisher(cache[t])
                => /\ t \in DOMAIN cache'
                   /\ Get(cache'[t], "publisher") = Get(cache[t], "publisher")]_vars

\* C14 witness: in the second run, a call found "Publisher Not Found" stored
\* by the first run and searched the storefront again
C14_Witness ==
    /\ run = 2
    /\ Revisit /\ pc = "meta"
    /\ Get(pre, "publisher") = "Publisher Not Found"
    /\ "steam_search" \in Requests(log)

\* C15: a metadata-service call made while only one of release date and
\* rating is missing (None or its not-found value) writes that field and
\* leaves the other, resolved one as it was, whatever the service answers.
C15_MetaFieldsIndependent ==
    LET e == probe.entry
        o == probe.out.entry
    IN
    ProbeRan("meta") /\ probe.token /\ MissingMeta(e)
        => /\ ~MissingDate(e)
                => Get(o, "original_release_date") = Get(e, "original_release_date")
           /\ ~MissingScore(e)
                => Get(o, "aggregated_rating") = Get(e, "aggregated_rating")
           /\ MissingDate(e) => Get(o, "original_release_date") # None
           /\ MissingScore(e) => Get(o, "aggregated_rating") # None

\* C15 witness: the entry held a release date and "Score Not Found"; the
\* service answered another date and a rating; the rating was stored and the
\* date kept
C15_Witness ==
    /\ ProbeRan("meta") /\ probe.token
    /\ Get(probe.entry, "original_release_date") = "2021-03-01"
    /\ Get(probe.entry, "aggregated_rating") = "Score Not Found"
    /\ ~probe.answers.resp.err
    /\ probe.answers.resp.names # <<>>
    /\ TopScore(probe.answers.resp.names) >= 80
    /\ probe.answers.resp.first_release_date = <<86400>>
    /\ Get(probe.out.entry, "original_release_date") = "2021-03-01"
    /\ Get(probe.out.entry, "aggregated_rating") = "75.0"

\* The call in progress found the metadata fields set, one at least to its
\* not-found value
FoundMetaSentinel ==
    /\ Revisit
    /\ Get(pre, "original_release_date") # None
    /\ Get(pre, "aggregated_rating") # None
    /\ \/ Get(pre, "original_release_date") = "Date Not Found"
       \/ Get(pre, "aggregated_rating") = "Score Not Found"

C17_FranchiseNeedsReleaseDate ==
    /\ pc = "save"
    /\ Get(game_entry, "original_release_date") \in {None, "Date Not Found"}
    => /\ log = <<>>
       /\ FranchiseFields(game_entry) = FranchiseFields(Found)
       /\ game_title \in Manual
            => Get(game_entry, "next_sequel_name") # SHARED_UNIVERSES[game_title].name

\* C17 witness: a call with a token for a title of the manual table ended with
\* "Date Not Found" and no franchise field set
C17_Witness ==
    /\ pc = "save" /\ igdb_token
    /\ game_title \in Manual
    /\ Get(game_entry, "original_release_date") = "Date Not Found"
    /\ FranchiseFields(game_entry) = <<None, None, FALSE>>

\* The franchise block of the call in progress ran: the call found no
\* next_sequel_date and the metadata step left a real release date
FranchiseRan ==
    /\ pc = "save"
    /\ Get(Found, "next_sequel_date") = None
    /\ Get(game_entry, "original_release_date") \notin {None, "Date Not Found"}

\* C18: when the franchise block runs for a title of the manual table, the
\* entry takes next_sequel_name and next_sequel_date from the table, no
\* knowledge-graph or metadata-service franchise request is issued, and the
\* call ends with the table's values, not "Standalone" or "No Future Sequel
\* Found".
C18_Tier1Precedence ==
    FranchiseRan /\ game_title \in Manual
        => /\ Get(game_entry, "next_sequel_name") = SHARED_UNIVERSES[game_title].name
           /\ Get(game_entry, "next_sequel_date") = SHARED_UNIVERSES[game_title].date
           /\ Get(game_entry, "next_sequel_name")
                 \notin {"Standalone", "No Future Sequel Found"}
           /\ Requests(log) \cap {"wikidata", "igdb_collection", "igdb_siblings"} = {}
           /\ has_changed

\* C18 witness: a call with a token for a title of the manual table resolved
\* its release date and ended with the table's sequel
C18_Witness ==
    /\ FranchiseRan /\ igdb_token
    /\ game_title = "Bravo"
    /\ Get(game_entry, "next_sequel_name") = "Bravo II"
    /\ Get(game_entry, "next_sequel_date") = "2021-11-16"

\* The places of a request in the log of the probed block
Places(req) == { k \in DOMAIN probe.out.log : probe.out.log[k] = req }

\* Tier 2 answered at least one sibling
Tier2Answered == ~probe.answers.w.err /\ probe.answers.w.results # <<>>

\* C19: the Tier 3 metadata-service franchise query is issued only after the
\* Tier 2 knowledge-graph query, only when that query gave nothing (a failure
\* or an empty list) and only with a bearer token; when Tier 2 answers at
\* least one sibling no Tier 3 request is made and the sequel is selected from
\* the Tier 2 list.
C19_TierOrdering ==
    TiersAsked
        => /\ Places("wikidata") = {1}
           /\ Places("igdb_collection") # {}
                => /\ probe.token
                   /\ ~Tier2Answered
                   /\ \A k \in Places("igdb_collection") : k > 1
           /\ \A k \in Places("igdb_siblings") :
                 \E j \in Places("igdb_collection") : j < k
           /\ Tier2Answered
                => /\ probe.out.log = <<"wikidata">>
                   /\ Get(probe.out.entry, "next_sequel_name")
                         \in { probe.answers.w.results[i].name :
                                 i \in DOMAIN probe.answers.w.results }
                             \cup {"No Future Sequel Found"}

\* C19 witness: with a token, Tier 2 answered two siblings, one of them later
\* than the start date; only the knowledge graph was asked and the sequel is
\* that sibling
C19_Witness ==
    /\ TiersAsked /\ probe.token
    /\ Tier2Answered
    /\ Len(probe.answers.w.results) = 2
    /\ Cardinality(LaterSiblings) = 1
    /\ probe.out.log = <<"wikidata">>
    /\ \E i \in LaterSiblings :
          Get(probe.out.entry, "next_sequel_name") = probe.answers.w.results[i].name

\* C20: when the tiers answer a non-empty sibling list of which no sibling is
\* strictly later than the promotion start date, the entry is set to "No
\* Future Sequel Found" / "N/A" / false, and not to "Standalone".
C20_NoFutureSequel ==
    TiersAsked /\ TierList # <<>> /\ LaterSiblings = {}
        => /\ FranchiseFields(probe.out.entry)
                 = <<"No Future Sequel Found", "N/A", FALSE>>
           /\ probe.out.changed

\* C20 witness: Tier 2 answered two siblings, one dated on the start date
\* itself and one whose date does not parse; none is later
C20_Witness ==
    /\ TiersAsked /\ Tier2Answered
    /\ Len(TierList) = 2
    /\ LaterSiblings = {}
    /\ \E i \in DOMAIN TierList :
          Stamp(TierList[i]) = <<StartStamp>>
    /\ \E i \in DOMAIN TierList : Stamp(TierList[i]) = <<>>
    /\ Get(probe.out.entry, "next_sequel_name") = "No Future Sequel Found"

\* A sibling whose date is a string that does not parse
Malformed(g) == g.raw.k = "iso" /\ g.raw.s \notin DOMAIN IsoDay
WellFormed(g) == ~Malformed(g)

\* C21: a sibling whose date cannot be parsed is skipped and the lookup goes
\* on: the franchise fields the block stores for a sibling list are those of
\* the selection run on the list without its malformed siblings.
C21_MalformedSiblingSkipped ==
    TiersAsked /\ TierList # <<>>
        => LET r == ProcessFranchise(SelectSeq(TierList, WellFormed),
                                     Get(probe.entry, "start_date"))
           IN  /\ probe.out.changed
               /\ FranchiseFields(probe.out.entry)
                     = <<r.upd.next_sequel_name, r.upd.next_sequel_date,
                         r.upd.is_strategic_hype>>

\* C21 witness: Tier 2 answered a malformed sibling followed by a later one,
\* and the later one is the stored sequel
C21_Witness ==
    /\ TiersAsked /\ Tier2Answered
    /\ Len(TierList) = 2
    /\ Malformed(TierList[1])
    /\ LaterSiblings = {2}
    /\ Get(probe.out.entry, "next_sequel_name") = TierList[2].name

IgdbRequests == {"igdb_search", "igdb_collection", "igdb_siblings"}

\* C22: in a run without a bearer token no block of a call issues a
\* metadata-service request, release date and rating stay as the call found
\* them (no not-found value is written), and price and publisher are still
\* looked up when missing.
C22_NoTokenDegrades ==
    InCall /\ ~igdb_token
        => /\ Requests(log) \cap IgdbRequests = {}
           /\ Get(game_entry, "original_release_date") = Get(Found, "original_release_date")
           /\ Get(game_entry, "aggregated_rating") = Get(Found, "aggregated_rating")
           /\ pc = "publisher" /\ PriceMissing(Found) => "price_search" \in Requests(log)
           /\ pc = "meta" /\ PublisherMissing(Found) => "steam_search" \in Requests(log)

\* C22 witness: a first call without a token is over; price and publisher are
\* resolved, release date and rating are still None
C22_Witness ==
    /\ pc = "save" /\ ~igdb_token
    /\ pre = <<>>
    /\ Get(game_entry, "price") = "19.99"
    /\ Get(game_entry, "publisher") = "tinyBuild"
    /\ Get(game_entry, "original_release_date") = None
    /\ Get(game_entry, "aggregated_rating") = None

\* A loaded entry with the keys it lacks given the values of a new entry
Complete(e) == e @@ NewEntry

\* The probed block applied to an entry with the answers the probe drew
BlockOn(e) ==
    CASE probe.fn = "price" -> PriceBlock(e, probe.answers)
      [] probe.fn = "publisher" -> PublisherBlock(e, probe.answers)
      [] probe.fn = "meta" -> MetaBlock(e, probe.token, probe.answers)
      [] probe.fn = "franchise" ->
             FranchiseBlock(e, probe.title, probe.token, probe.answers)

\* C23 as stated: a loaded entry that lacks the key of an enrichable field is
\* handled as not yet attempted: each block makes for it the requests it makes
\* for a new entry's value of the field.
C23_AbsentKeyAsNew ==
    probe.done /\ probe.entry \in LegacyEntries
        => Requests(probe.out.log) = Requests(BlockOn(Complete(probe.entry)).log)

SentinelPublisher(e) ==
    Get(e, "publisher") \in {"Unknown Publisher", "Publisher Not Found"}

\* The step that returns from a call and applies its updates to the record
Returns == pc = "save" /\ pc' = "loop"

\* The step that starts the next run
Reruns == pc \in {"end", "aborted"} /\ pc' = "loop"

\* The record of the call after the step holds what the entry holds, its
\* publisher only when the entry's is a real name
CopiedBack ==
    /\ df'[idx].price = Cell(Get(game_entry, "price"))
    /\ df'[idx].original_release_date = Cell(Get(game_entry, "original_release_date"))
    /\ df'[idx].next_sequel_name = Cell(Get(game_entry, "next_sequel_name"))
    /\ df'[idx].next_sequel_date = Cell(Get(game_entry, "next_sequel_date"))
    /\ df'[idx].publisher =
           IF SentinelPublisher(game_entry) THEN df[idx].publisher
           ELSE Get(game_entry, "publisher")
    /\ \A i \in DOMAIN df : i # idx => df'[i] = df[i]

Selected == { todo'[k] : k \in DOMAIN todo' }

\* C24 as stated: the step that returns from a call copies price, release
\* date, sequel name and sequel date into the record and the publisher only
\* when it is a real name; a record whose title's entry holds "Unknown
\* Publisher" or "Publisher Not Found" is selected again by the next run.
C24_SentinelPublisherReselected ==
    [][ /\ Returns => CopiedBack
        /\ Reruns =>
             \A i \in DOMAIN df :
                 df[i].game \in DOMAIN cache' /\ SentinelPublisher(cache'[df[i].game])
                     => i \in Selected ]_vars

\* The copy-back part of C24 alone
C24_CopyBackOnly == [][Returns => CopiedBack]_vars


\* C25 as stated: whatever the adapters answer, the loop visits the records
\* that need enrichment one after the other in row order, and every call is
\* followed by the next turn of the loop, so that no record's failure ends
\* the run before the last record.
C25_BatchNeverAborts ==
    [][ /\ pc = "loop" /\ todo # <<>> => idx' = Head(todo) /\ todo' = Tail(todo)
        /\ pc = "save" => pc' = "loop" ]_vars

\* The part of C25 that holds: a run is cut short only by a rating that is not
\* a number; with every other answer (exceptions, empty responses, low scores,
\* siblings without a usable date) the call is followed by the next turn of
\* the loop.
C25_AbortsOnlyOnMalformedRating ==
    [][ /\ pc = "loop" /\ todo # <<>> => idx' = Head(todo) /\ todo' = Tail(todo)
        /\ pc = "save" /\ pc' # "loop"
             => Get(game_entry, "aggregated_rating") \in MalformedRatings ]_vars


\* C26 as stated: in every call each external request comes right after a
\* delay, so that a delay lies between any two requests and before the first.
C26_DelayBeforeEveryRequest ==
    \A k \in DOMAIN log :
        log[k] # "sleep" => k > 1 /\ log[k - 1] = "sleep"

\* The delays there are: one before the price search and one before the
\* storefront search, the first request of their blocks
C26_DelayBeforeSearchOnly ==
    \A k \in DOMAIN log :
        (log[k] = "sleep" <=> k = 1 /\ Len(log) > 1
                                 /\ log[2] \in {"price_search", "steam_search"})


\* The flag the batch reclassification gives a row
BatchFlag(row) ==
    tag_hype_candidates(
        calculate_hype_delta(clean_metadata_and_inflation(row))).is_strategic_hype

RealSequelDate(v) == v \in DOMAIN IsoDay

\* C27 as stated: for every record of the reclassified ledger with a real
\* next_sequel_date and a title outside the manual table, the flag the
\* resolver wrote to the title's entry equals the flag the batch step gives
\* the record.
C27_LiveAgreesEveryRecord ==
    pc = "end" =>
        \A i \in DOMAIN df :
            /\ df[i].game \in DOMAIN cache \ Manual
            /\ RealSequelDate(df[i].next_sequel_date)
            => Flag(cache[df[i].game]) = df[i].is_strategic_hype

\* C27 amended: when the call of a record resolves the franchise through
\* Tier 2 or Tier 3 to a real date, the flag it writes equals the flag the
\* batch step computes from the persisted next_sequel_date and that record's
\* start_date.
C27_LiveAgreesOnOwnRecord ==
    /\ FranchiseRan
    /\ game_title \notin Manual
    /\ RealSequelDate(Get(game_entry, "next_sequel_date"))
    => Flag(game_entry) = BatchFlag(CopyBack(df[idx], game_entry))

\* C27 witness: the call has resolved a sequel exactly 90 days after the
\* record's start date and flagged it, as the batch step does
C27_Witness ==
    /\ FranchiseRan
    /\ game_title \notin Manual
    /\ LeadDays(game_entry) = <<90>>
    /\ Flag(game_entry)
    /\ BatchFlag(CopyBack(df[idx], game_entry))


\* The step that enters the resolver for the next record
Calls == pc = "loop" /\ pc' = "price"

StartDateOf(c, t) == Get(c[t], "start_date")

TierRequests == {"wikidata", "igdb_collection", "igdb_siblings"}

\* The entry holds a next_sequel_date: a date or "N/A"
SequelSet(e) == Get(e, "next_sequel_date") # None

\* C29: once an entry's next_sequel_date is not None, no step of any later
\* call or run changes its next_sequel_name, next_sequel_date or
\* is_strategic_hype, and a call that finds it so issues no knowledge-graph or
\* collection request, whatever its promo_start and token.
C29_FranchiseTerminal ==
    /\ [][\A t \in DOMAIN cache :
            SequelSet(cache[t])
                => /\ t \in DOMAIN cache'
                   /\ FranchiseFields(cache'[t]) = FranchiseFields(cache[t])]_vars
    /\ [](Revisit /\ SequelSet(pre) => Requests(log) \cap TierRequests = {})

\* C29 witness: a call with a token and another promo_start is over for a
\* title whose entry held "Standalone" / "N/A" and a real release date
C29_Witness ==
    /\ pc = "save" /\ Repromoted /\ igdb_token
    /\ ReleaseResolved(pre)
    /\ FranchiseFields(pre) = <<"Standalone", "N/A", FALSE>>
    /\ FranchiseFields(game_entry) = FranchiseFields(pre)

\* A row with nothing but a record's start_date and next_sequel_date
DatesOnly(row) ==
    [NewRow(row.game, row.start_date) EXCEPT !.next_sequel_date = row.next_sequel_date]

\* C30: the step that copies an entry back leaves the record's
\* is_strategic_hype as it was, and in the reclassified ledger every record's
\* flag is the one the batch step gives a row holding only that record's
\* start_date and next_sequel_date.
C30_RecordFlagFromOwnDates ==
    /\ [][Returns => df'[idx].is_strategic_hype = df[idx].is_strategic_hype]_vars
    /\ [](pc = "end" =>
            \A i \in DOMAIN df : df[i].is_strategic_hype = BatchFlag(DatesOnly(df[i])))

\* C30 witness: a reclassified ledger with a record that is not flagged while
\* the entry of its title is, and a record that is flagged
C30_Witness ==
    /\ pc = "end"
    /\ \E i \in DOMAIN df :
         /\ df[i].game \in DOMAIN cache
         /\ Flag(cache[df[i].game])
         /\ RealSequelDate(df[i].next_sequel_date)
         /\ ~df[i].is_strategic_hype
    /\ \E i \in DOMAIN df : df[i].is_strategic_hype

====
